---- MODULE Spec2Model ----
(***************************************************************************)
(* Model of the status-poll primitive of greenanvil/status-poll.           *)
(*                                                                         *)
(* The repository holds three versions of the poll factory:               *)
(*   "pollForStatus"            src/src/main.js        lines 47-99         *)
(*   "pollForStatus1"           src/unnamed/part_000   lines 44-87         *)
(*   "createStatusPollFunction" src/unnamed/part_000   lines 166-219       *)
(* The variable `variant` records which factory built the launcher; every *)
(* action follows the code of that factory.                                *)
(***************************************************************************)
EXTENDS Integers, Sequences, FiniteSets, TLC

\* ------------------------------------------------------------------ bounds
\* number of launcher calls (sessions) of the one launcher
MaxSessions == 2
\* largest valid maxTries a caller passes explicitly
MaxTriesIn == 2

\* ------------------------------------------------------- program constants
DefaultMaxTries == 10
DefaultPollTime == 100

Sessions == 1..MaxSessions

Variants == {"pollForStatus", "pollForStatus1", "createStatusPollFunction"}

\* ---------------------------------------------------------------- JS values
\* A JavaScript value as far as the code looks at it: its kind and, for a
\* number, its integer value.
Undefined == [kind |-> "undefined", v |-> 0]
Str       == [kind |-> "string", v |-> 0]
NaN       == [kind |-> "NaN", v |-> 0]
Fn        == [kind |-> "function", v |-> 0]
Num(n)    == [kind |-> "number", v |-> n]

\* typeof x  (NaN is of type 'number')
TypeOf(x) == IF x.kind = "NaN" THEN "number" ELSE x.kind

\* a < b on two values of type 'number': false as soon as one is NaN
JSLess(a, b) == a.kind = "number" /\ b.kind = "number" /\ a.v < b.v

\* the statuses the fetcher of the repository can be made to deliver
Statuses == {"notReady", "ready", "abort"}
Results  == [status : Statuses]

\* the abort predicates a launcher is built with: the demo's
\* (status === 'abort') and one that overlaps the success predicate
AbortConditions == {{"abort"}, {"abort", "ready"}}

\* the values a caller passes for maxTries and pollTime
MaxTriesInputs == {Undefined, Str, NaN, Num(-1), Num(0)} \cup {Num(n) : n \in 1..MaxTriesIn}
PollTimeInputs == {Undefined, Str, Num(0), Num(250)}
OnTicInputs    == {Undefined, Fn}

\* every config object a caller may pass
RunConfigs == [maxTries : MaxTriesInputs, pollTime : PollTimeInputs,
               onSuccess : {Fn}, onFail : {Fn}, onTic : OnTicInputs]

\* the config objects whose maxTries and pollTime are already valid
ValidConfigs == [maxTries : {Num(n) : n \in 1..MaxTriesIn}, pollTime : {Num(250)},
                 onSuccess : {Fn}, onFail : {Fn}, onTic : OnTicInputs]

NoConf == [maxTries |-> Undefined, pollTime |-> Undefined,
           onSuccess |-> Undefined, onFail |-> Undefined, onTic |-> Undefined]

NoTic == [res |-> [status |-> "none"], attemptNumber |-> 0]

VARIABLES
    variant,         \* which factory built the launcher
    abortCondition,  \* statuses the launcher's abort predicate accepts
    testCount,       \* the closure variable(s) testCount, by closure
    conf,            \* the caller's config object of each session
    rawConf,         \* the config object as the caller passed it
    launched,        \* the launcher has been called for the session
    pendingFetch,    \* getStatus invocations whose callback is outstanding
    pendingTimer,    \* setTimeout timers not yet fired
    fetches,         \* number of getStatus invocations of the session
    resLog,          \* results delivered to the session, in order
    ticCount,        \* number of conf.onTic invocations
    lastTic,         \* arguments of the latest conf.onTic invocation
    timeoutLog,      \* delays passed to window.setTimeout, in order
    onSuccessCalls,  \* number of conf.onSuccess invocations
    onFailCalls,     \* number of conf.onFail invocations
    handlerLog,      \* the calls the latest completion handler made, in order
    hungFetch        \* outstanding getStatus invocations that never call back

vars == <<variant, abortCondition, testCount, conf, rawConf, launched,
          pendingFetch, pendingTimer, fetches, resLog, ticCount, lastTic,
          timeoutLog, onSuccessCalls, onFailCalls, handlerLog, hungFetch>>

\* ------------------------------------------------------------ the factories
\* The closure that holds testCount: pollForStatus declares it once per
\* launcher (closure 0), createStatusPollFunction once per launcher call.
CounterOf(s) == IF variant = "createStatusPollFunction" THEN s ELSE 0

\* statusResultSuccess: the demo's successCondition, status === 'ready'
statusResultSuccess(res) == res.status = "ready"

\* statusResultAbort: the launcher's abort predicate; pollForStatus1 has none
statusResultAbort(res) ==
    variant # "pollForStatus1" /\ res.status \in abortCondition

\* variant of ValidateMaxTries: the lower bound is tested with < 0
ValidateMaxTries_BelowZero(c) ==
    IF TypeOf(c.maxTries) # "number" \/ JSLess(c.maxTries, Num(0))
    THEN [c EXCEPT !.maxTries = Num(DefaultMaxTries)]
    ELSE c

\* the config validation of the launcher
ValidateMaxTries(c) ==
    IF TypeOf(c.maxTries) # "number" \/ JSLess(c.maxTries, Num(1))
    THEN [c EXCEPT !.maxTries = Num(DefaultMaxTries)]
    ELSE c

\* variant of ValidatePollTime: the default is assigned to the wrong field
ValidatePollTime_WrongField(c) ==
    IF TypeOf(c.pollTime) # "number" \/ JSLess(c.pollTime, Num(1))
    THEN [c EXCEPT !.maxTries = Num(DefaultPollTime)]
    ELSE c

ValidatePollTime(c) ==
    IF TypeOf(c.pollTime) # "number" \/ JSLess(c.pollTime, Num(1))
    THEN [c EXCEPT !.pollTime = Num(DefaultPollTime)]
    ELSE c

Validate(c) == ValidatePollTime(ValidateMaxTries(c))

\* testCount as the completion handler of session s reads it: pollForStatus1
\* increments it at the top of the handler, the others before the fetch
CountAtCompletion(s) ==
    IF variant = "pollForStatus1"
    THEN testCount[CounterOf(s)] + 1
    ELSE testCount[CounterOf(s)]

\* variant of canStillTry: the bound is compared with <= instead of <
canStillTry_Lte(s) ==
    JSLess(Num(CountAtCompletion(s)), conf[s].maxTries)
        \/ Num(CountAtCompletion(s)) = conf[s].maxTries

canStillTry(s) == JSLess(Num(CountAtCompletion(s)), conf[s].maxTries)

succeeded(res) == statusResultSuccess(res)

aborted(res) == statusResultAbort(res)

\* variant of ShouldRetry: the abort predicate is not consulted
ShouldRetry_IgnoresAbort(s, res) == canStillTry(s) /\ ~succeeded(res)

\* the condition of the if that schedules the next attempt
ShouldRetry(s, res) == canStillTry(s) /\ ~succeeded(res) /\ ~aborted(res)

\* variant of Terminates: the terminal branch is not guarded by an else
Terminates_Always(s, res) == TRUE

\* variant of Terminates: the terminal branch runs only when tries ran out
Terminates_OnlyExhausted(s, res) == ~canStillTry(s)

\* the else branch: the session ends with a terminal callback
Terminates(s, res) == ~ShouldRetry(s, res)

\* variant of FiresSuccess: an abort overrides a success
FiresSuccess_AbortFirst(res) == succeeded(res) /\ ~aborted(res)

\* the final decision: onSuccess or onFail
FiresSuccess(res) ==
    IF variant = "pollForStatus1" THEN res.status = "ready" ELSE succeeded(res)

\* conf.onTic is called when it is a function; pollForStatus1 never calls it
CallsOnTic(s) == variant # "pollForStatus1" /\ TypeOf(conf[s].onTic) = "function"

\* variant of TimeoutDelay: the default interval is used, not the config's
TimeoutDelay_Default(s) == Num(DefaultPollTime)

\* the delay passed to window.setTimeout
TimeoutDelay(s) == conf[s].pollTime

\* a call made by the completion handler: the function called, the kind and
\* status of the value passed first, and the number passed (count or delay)
Call(name, kind, status, n) ==
    [call |-> name, kind |-> kind, status |-> status, n |-> n]

\* conf.onTic( res, testCount )
TicCalls(s, res) ==
    IF CallsOnTic(s)
    THEN <<Call("onTic", "object", res.status, CountAtCompletion(s))>>
    ELSE <<>>

\* the predicate calls: pollForStatus passes res.status to both predicates,
\* createStatusPollFunction passes res, and the first pollForStatus calls its
\* one predicate with res.status only while tries remain (&&)
PredicateCalls(s, res) ==
    CASE variant = "pollForStatus" ->
            <<Call("statusResultSuccess", "string", res.status, 0),
              Call("statusResultAbort", "string", res.status, 0)>>
      [] variant = "createStatusPollFunction" ->
            <<Call("statusResultSuccess", "object", res.status, 0),
              Call("statusResultAbort", "object", res.status, 0)>>
      [] variant = "pollForStatus1" ->
            IF canStillTry(s)
            THEN <<Call("statusResultTest", "string", res.status, 0)>>
            ELSE <<>>

\* the call that ends the handler: setTimeout, onSuccess or onFail
FinalCalls(s, res) ==
    (IF ShouldRetry(s, res)
     THEN <<Call("setTimeout", "function", "", TimeoutDelay(s).v)>>
     ELSE <<>>)
    \o
    (IF Terminates(s, res)
     THEN IF FiresSuccess(res)
          THEN <<Call("onSuccess", "undefined", "", 0)>>
          ELSE <<Call("onFail", "undefined", "", 0)>>
     ELSE <<>>)

\* the calls of one run of the completion handler, in the order of the code:
\* pollForStatus calls onTic before the predicates, createStatusPollFunction
\* after them
HandlerCalls(s, res) ==
    IF variant = "pollForStatus"
    THEN TicCalls(s, res) \o PredicateCalls(s, res) \o FinalCalls(s, res)
    ELSE PredicateCalls(s, res) \o TicCalls(s, res) \o FinalCalls(s, res)

\* variant of performStatusCheck: getStatus is invoked twice per attempt
performStatusCheck_FetchesTwice(s) ==
    /\ testCount' = IF variant = "pollForStatus1"
                    THEN testCount
                    ELSE [testCount EXCEPT ![CounterOf(s)] = @ + 1]
    /\ fetches' = [fetches EXCEPT ![s] = @ + 2]
    /\ pendingFetch' = [pendingFetch EXCEPT ![s] = @ + 2]

\* performStatusCheck up to the getStatus call
performStatusCheck(s) ==
    /\ testCount' = IF variant = "pollForStatus1"
                    THEN testCount
                    ELSE [testCount EXCEPT ![CounterOf(s)] = @ + 1]
    /\ fetches' = [fetches EXCEPT ![s] = @ + 1]
    /\ pendingFetch' = [pendingFetch EXCEPT ![s] = @ + 1]

\* ------------------------------------------------------------------ actions
Init ==
    /\ variant \in Variants
    /\ abortCondition \in AbortConditions
    /\ variant = "pollForStatus1" => abortCondition = {"abort"}
    /\ testCount = [c \in 0..MaxSessions |-> 0]
    /\ conf = [s \in Sessions |-> NoConf]
    /\ rawConf = [s \in Sessions |-> NoConf]
    /\ launched = [s \in Sessions |-> FALSE]
    /\ pendingFetch = [s \in Sessions |-> 0]
    /\ pendingTimer = [s \in Sessions |-> 0]
    /\ fetches = [s \in Sessions |-> 0]
    /\ resLog = [s \in Sessions |-> <<>>]
    /\ ticCount = [s \in Sessions |-> 0]
    /\ lastTic = [s \in Sessions |-> NoTic]
    /\ timeoutLog = [s \in Sessions |-> <<>>]
    /\ onSuccessCalls = [s \in Sessions |-> 0]
    /\ onFailCalls = [s \in Sessions |-> 0]
    /\ handlerLog = [s \in Sessions |-> <<>>]
    /\ hungFetch = [s \in Sessions |-> 0]

\* the launcher call: validates conf in place and makes the first attempt
Launch(s, c) ==
    /\ ~launched[s]
    /\ \A r \in Sessions : r < s => launched[r]
    /\ launched' = [launched EXCEPT ![s] = TRUE]
    /\ rawConf' = [rawConf EXCEPT ![s] = c]
    /\ conf' = [conf EXCEPT ![s] = Validate(c)]
    /\ performStatusCheck(s)
    /\ UNCHANGED <<variant, abortCondition, pendingTimer, resLog, ticCount,
                   lastTic, timeoutLog, onSuccessCalls, onFailCalls, handlerLog,
                   hungFetch>>

\* the timer fires: performStatusCheck runs again
TimerFire(s) ==
    /\ pendingTimer[s] > 0
    /\ pendingTimer' = [pendingTimer EXCEPT ![s] = @ - 1]
    /\ performStatusCheck(s)
    /\ UNCHANGED <<variant, abortCondition, conf, rawConf, launched, resLog,
                   ticCount, lastTic, timeoutLog, onSuccessCalls, onFailCalls,
                   handlerLog, hungFetch>>

\* the fetcher calls back with res: the completion handler runs
FetchCallback(s, res) ==
    /\ pendingFetch[s] > hungFetch[s]
    /\ pendingFetch' = [pendingFetch EXCEPT ![s] = @ - 1]
    /\ resLog' = [resLog EXCEPT ![s] = Append(@, res)]
    /\ handlerLog' = [handlerLog EXCEPT ![s] = HandlerCalls(s, res)]
    /\ testCount' = IF variant = "pollForStatus1"
                    THEN [testCount EXCEPT ![CounterOf(s)] = @ + 1]
                    ELSE testCount
    /\ IF CallsOnTic(s)
       THEN /\ ticCount' = [ticCount EXCEPT ![s] = @ + 1]
            /\ lastTic' = [lastTic EXCEPT ![s] =
                              [res |-> res, attemptNumber |-> CountAtCompletion(s)]]
       ELSE UNCHANGED <<ticCount, lastTic>>
    /\ IF ShouldRetry(s, res)
       THEN /\ pendingTimer' = [pendingTimer EXCEPT ![s] = @ + 1]
            /\ timeoutLog' = [timeoutLog EXCEPT ![s] = Append(@, TimeoutDelay(s))]
       ELSE UNCHANGED <<pendingTimer, timeoutLog>>
    /\ IF Terminates(s, res)
       THEN IF FiresSuccess(res)
            THEN /\ onSuccessCalls' = [onSuccessCalls EXCEPT ![s] = @ + 1]
                 /\ UNCHANGED onFailCalls
            ELSE /\ onFailCalls' = [onFailCalls EXCEPT ![s] = @ + 1]
                 /\ UNCHANGED onSuccessCalls
       ELSE UNCHANGED <<onSuccessCalls, onFailCalls>>
    /\ UNCHANGED <<variant, abortCondition, conf, rawConf, launched, fetches,
                   hungFetch>>

\* the fetcher drops the callback of an outstanding invocation of session s:
\* it will never call back
Hang(s) ==
    /\ pendingFetch[s] > hungFetch[s]
    /\ hungFetch' = [hungFetch EXCEPT ![s] = @ + 1]
    /\ UNCHANGED <<variant, abortCondition, testCount, conf, rawConf, launched,
                   pendingFetch, pendingTimer, fetches, resLog, ticCount, lastTic,
                   timeoutLog, onSuccessCalls, onFailCalls, handlerLog>>

\* the caller assigns maxTries and pollTime of the config object it passed to
\* the launcher, which the session still reads at every attempt
CallerMutates(s, m, p) ==
    /\ launched[s]
    /\ onSuccessCalls[s] + onFailCalls[s] = 0
    /\ conf[s].maxTries # m \/ conf[s].pollTime # p
    /\ conf' = [conf EXCEPT ![s].maxTries = m, ![s].pollTime = p]
    /\ UNCHANGED <<variant, abortCondition, testCount, rawConf, launched,
                   pendingFetch, pendingTimer, fetches, resLog, ticCount, lastTic,
                   timeoutLog, onSuccessCalls, onFailCalls, handlerLog, hungFetch>>

\* several sessions of one launcher, each launched with a valid config
Next ==
    \/ \E s \in Sessions, c \in ValidConfigs : Launch(s, c)
    \/ \E s \in Sessions : TimerFire(s)
    \/ \E s \in Sessions, res \in Results : FetchCallback(s, res)

Spec == Init /\ [][Next]_vars

\* one session, launched with any config object
NextDefaults ==
    \/ \E c \in RunConfigs : Launch(1, c)
    \/ \E s \in Sessions : TimerFire(s)
    \/ \E s \in Sessions, res \in Results : FetchCallback(s, res)

SpecDefaults == Init /\ [][NextDefaults]_vars

\* one session, launched with any config object, with a fetcher that may
\* fail to call back
NextHang ==
    \/ NextDefaults
    \/ \E s \in Sessions : Hang(s)

SpecHang == Init /\ [][NextHang]_vars

\* one session, launched with a valid config object that the caller goes on
\* assigning to
NextMutate ==
    \/ \E c \in ValidConfigs : Launch(1, c)
    \/ \E s \in Sessions : TimerFire(s)
    \/ \E s \in Sessions, res \in Results : FetchCallback(s, res)
    \/ \E s \in Sessions, m \in {Num(n) : n \in 1..MaxTriesIn},
           p \in {Num(250), Num(500)} : CallerMutates(s, m, p)

SpecMutate == Init /\ [][NextMutate]_vars

\* the scheduler runs every timer and the fetcher answers every invocation
Fairness ==
    \A s \in Sessions :
        /\ WF_vars(TimerFire(s))
        /\ WF_vars(\E res \in Results : FetchCallback(s, res))

FairSpec == Spec /\ Fairness

\* --------------------------------------------------------------- vocabulary
Terminated(s) == onSuccessCalls[s] + onFailCalls[s] > 0

\* the number of completed attempts of session s
Completed(s) == Len(resLog[s])

\* the validated maxTries of a launched session, as an integer
MaxTriesOf(s) == conf[s].maxTries.v

\* the result neither succeeds nor aborts
NotYetReady(res) == ~succeeded(res) /\ ~aborted(res)

\* all results of session s before index i are NotYetReady
QuietBefore(s, i) == \A j \in 1..(i - 1) : NotYetReady(resLog[s][j])

\* ------------------------------------------------------------------- claims

\* C1: in every session onSuccess and onFail are never both invoked, and
\* neither is invoked more than once.
C1_AtMostOneTerminalCall ==
    \A s \in Sessions :
        /\ onSuccessCalls[s] + onFailCalls[s] <= 1
        /\ ~(onSuccessCalls[s] > 0 /\ onFailCalls[s] > 0)

\* two sessions have ended, one by onSuccess on a later attempt, one by onFail
C1_Witness ==
    \E s, r \in Sessions :
        /\ onSuccessCalls[s] = 1 /\ fetches[s] >= 2
        /\ onFailCalls[r] = 1 /\ fetches[r] >= 2

\* C2: with a fetcher that always calls back and timers that always fire,
\* every launched session eventually invokes onSuccess or onFail: time and
\* again every session launched so far has ended (a launched session stays
\* launched and an ended session stays ended, so this says that each
\* launched session eventually ends).
C2_EventuallyTerminates ==
    []<>(\A s \in Sessions : launched[s] => Terminated(s))

\* a session whose results never succeeded nor aborted has ended by onFail
C2_Witness ==
    \E s \in Sessions :
        /\ Completed(s) >= 2
        /\ QuietBefore(s, Completed(s) + 1)
        /\ onFailCalls[s] = 1

\* C3: a session launched with maxTries = N never makes more than N fetches,
\* whatever other sessions of the launcher do.
C3_AttemptBound ==
    \A s \in Sessions : launched[s] => fetches[s] <= MaxTriesOf(s)

\* a session has used all its tries while another session of the launcher
\* has fetched too
C3_Witness ==
    \E s, r \in Sessions :
        /\ s # r
        /\ fetches[s] = MaxTriesOf(s) /\ MaxTriesOf(s) >= 2
        /\ fetches[r] >= 1

\* the factories that take an abort predicate and honour conf.onTic
ThreeArgVariants == {"pollForStatus", "createStatusPollFunction"}

\* the latest result delivered to session s
LastRes(s) == resLog[s][Len(resLog[s])]

\* a session running alone ends on attempt i: the result succeeds or aborts,
\* or the tries are used up
SoloDone(s, i) == ~NotYetReady(resLog[s][i]) \/ i >= MaxTriesOf(s)

\* C4: sessions of one launcher are independent: the attempt counter of a
\* session counts only its own fetches, and the session makes the attempts
\* and fires the terminal callback it would if it were the only session.
C4_SessionsIndependent ==
    \A s \in Sessions :
        (variant \in ThreeArgVariants /\ launched[s]) =>
            /\ testCount[CounterOf(s)] = fetches[s]
            /\ \A i \in 1..(Completed(s) - 1) : ~SoloDone(s, i)
            /\ Terminated(s) <=> (Completed(s) > 0 /\ SoloDone(s, Completed(s)))
            /\ onSuccessCalls[s] = 1 <=> (Completed(s) > 0 /\ succeeded(LastRes(s)))

\* C5: a result that satisfies isSuccess ends the session on that attempt
\* with onSuccess and never onFail, also when it satisfies isAbort too and
\* when the attempt is the last allowed one.
C5_SuccessPriority ==
    \A s \in Sessions :
        \A i \in 1..Completed(s) :
            succeeded(resLog[s][i]) =>
                /\ i = Completed(s)
                /\ fetches[s] = i
                /\ onSuccessCalls[s] = 1
                /\ onFailCalls[s] = 0
                /\ pendingTimer[s] = 0
                /\ pendingFetch[s] = 0

\* a result that both succeeds and aborts arrived on the last allowed attempt
\* of a ten-try session, and onSuccess fired
C5_Witness ==
    \E s \in Sessions :
        /\ Completed(s) = 10 /\ conf[s].maxTries = Num(10)
        /\ succeeded(LastRes(s)) /\ aborted(LastRes(s))
        /\ onSuccessCalls[s] = 1

\* C6: when no result aborts, a session whose first success comes on attempt
\* k <= maxTries makes exactly k fetches and fires onSuccess, and a session
\* with no success makes exactly maxTries fetches and fires onFail.
C6_ExactAttempts ==
    \A s \in Sessions :
        (/\ variant \in ThreeArgVariants
         /\ Terminated(s)
         /\ \A i \in 1..Completed(s) : ~aborted(resLog[s][i])) =>
            IF \E i \in 1..Completed(s) : succeeded(resLog[s][i])
            THEN /\ succeeded(LastRes(s)) /\ QuietBefore(s, Completed(s))
                 /\ fetches[s] = Completed(s)
                 /\ onSuccessCalls[s] = 1 /\ onFailCalls[s] = 0
            ELSE /\ fetches[s] = MaxTriesOf(s)
                 /\ onFailCalls[s] = 1 /\ onSuccessCalls[s] = 0

\* C7: an abort (without success) on attempt k < maxTries, after results that
\* neither succeed nor abort, ends the session by onFail after exactly k
\* fetches, with no further fetch and no further timer; running out of tries
\* ends in onFail as well.
C7_AbortEndsByOnFail ==
    \A s \in Sessions :
        (Completed(s) > 0 /\ QuietBefore(s, Completed(s))) =>
            /\ (/\ aborted(LastRes(s)) /\ ~succeeded(LastRes(s))
                /\ Completed(s) < MaxTriesOf(s)) =>
                    /\ onFailCalls[s] = 1 /\ onSuccessCalls[s] = 0
                    /\ fetches[s] = Completed(s)
                    /\ pendingFetch[s] = 0 /\ pendingTimer[s] = 0
                    /\ Len(timeoutLog[s]) = Completed(s) - 1
            /\ (NotYetReady(LastRes(s)) /\ Terminated(s)) =>
                    /\ onFailCalls[s] = 1 /\ onSuccessCalls[s] = 0

\* a ten-try session got its abort on attempt 3 and fired onFail
C7_Witness ==
    \E s \in Sessions :
        /\ Completed(s) = 3 /\ conf[s].maxTries = Num(10)
        /\ QuietBefore(s, 3)
        /\ aborted(LastRes(s)) /\ ~succeeded(LastRes(s))
        /\ onFailCalls[s] = 1

\* C8: a supplied onTic is invoked once per completed attempt, the terminal
\* one included, and on the i-th completion of a session it receives i.
C8_TickCoverage ==
    \A s \in Sessions :
        (/\ variant \in ThreeArgVariants
         /\ launched[s]
         /\ TypeOf(conf[s].onTic) = "function") =>
            /\ ticCount[s] = Completed(s)
            /\ Completed(s) > 0 =>
                   lastTic[s] = [res |-> LastRes(s), attemptNumber |-> Completed(s)]

\* the value is omitted, is not of type number, or is a number below 1
InvalidNumber(x) ==
    \/ x.kind \in {"undefined", "string"}
    \/ x.kind = "number" /\ x.v < 1

\* C9: a launch whose maxTries is omitted, not a number or below 1 runs with
\* maxTries 10, and one whose pollTime is omitted, not a number or below 1
\* runs with interval 100.
C9_Defaulting ==
    \A s \in Sessions :
        launched[s] =>
            /\ InvalidNumber(rawConf[s].maxTries) =>
                   /\ conf[s].maxTries = Num(10)
                   /\ fetches[s] <= 10
                   /\ pendingTimer[s] > 0 => fetches[s] < 10
                   /\ (Terminated(s) /\ NotYetReady(LastRes(s))) => fetches[s] = 10
            /\ InvalidNumber(rawConf[s].pollTime) =>
                   /\ conf[s].pollTime = Num(100)
                   /\ \A i \in 1..Len(timeoutLog[s]) : timeoutLog[s][i] = Num(100)
            /\ ~InvalidNumber(rawConf[s].maxTries) =>
                   conf[s].maxTries = rawConf[s].maxTries
            /\ ~InvalidNumber(rawConf[s].pollTime) =>
                   conf[s].pollTime = rawConf[s].pollTime

\* a session launched with maxTries 0 and pollTime 0 ran out of its ten tries
C9_Witness ==
    \E s \in Sessions :
        /\ rawConf[s].maxTries = Num(0) /\ rawConf[s].pollTime = Num(0)
        /\ fetches[s] = 10 /\ onFailCalls[s] = 1
        /\ Len(timeoutLog[s]) = 9

\* C10: once a session has invoked onSuccess or onFail it makes no fetch,
\* schedules no timer, invokes onTic no more and invokes no terminal callback
\* again.
C10_TerminatedForGood ==
    [][\A s \in Sessions :
          Terminated(s) =>
              /\ fetches'[s] = fetches[s]
              /\ pendingFetch'[s] = 0 /\ pendingFetch[s] = 0
              /\ pendingTimer'[s] = 0 /\ pendingTimer[s] = 0
              /\ timeoutLog'[s] = timeoutLog[s]
              /\ ticCount'[s] = ticCount[s]
              /\ lastTic'[s] = lastTic[s]
              /\ onSuccessCalls'[s] = onSuccessCalls[s]
              /\ onFailCalls'[s] = onFailCalls[s]]_vars

\* a session has ended while another session of the launcher goes on
C10_Witness ==
    \E s, r \in Sessions :
        /\ Terminated(s) /\ ticCount[s] >= 2
        /\ ~Terminated(r) /\ pendingTimer[r] > 0

\* C11: a session has at most one outstanding fetch and at most one
\* outstanding timer, never both; its attempts are strictly sequential: every
\* fetch but the first was started by a timer, and every timer was scheduled
\* by the completion handler of the attempt before.
C11_OneOutstanding ==
    \A s \in Sessions :
        /\ pendingFetch[s] <= 1
        /\ pendingTimer[s] <= 1
        /\ ~(pendingFetch[s] > 0 /\ pendingTimer[s] > 0)
        /\ launched[s] =>
               /\ fetches[s] = Completed(s) + pendingFetch[s]
               /\ fetches[s] = 1 + Len(timeoutLog[s]) - pendingTimer[s]
               /\ Len(timeoutLog[s]) <= Completed(s)

\* the second attempt of a session is outstanding, after the first completed
\* and its timer fired
C11_Witness ==
    \E s \in Sessions :
        /\ fetches[s] = 2 /\ Completed(s) = 1
        /\ pendingFetch[s] = 1 /\ pendingTimer[s] = 0

\* C12: the launcher call itself makes the first attempt: when it returns
\* the attempt counter of the session is 1 and getStatus has been invoked
\* once, with no timer scheduled before.
C12_FirstAttemptSynchronous ==
    [][\A s \in Sessions :
          (~launched[s] /\ launched'[s]) =>
              /\ testCount'[CounterOf(s)] = 1
              /\ fetches'[s] = 1
              /\ pendingFetch'[s] = 1
              /\ pendingTimer'[s] = 0
              /\ timeoutLog'[s] = <<>>]_vars

\* C13: the completion of an attempt schedules the next attempt, by exactly
\* one timer whose delay is the validated poll interval, if and only if the
\* attempt counter is below maxTries and the result neither succeeds nor
\* aborts, and then no terminal callback fires; in every other case no timer
\* is scheduled and one terminal callback fires.
C13_ContinuationRule ==
    [][\A s \in Sessions :
          Len(resLog'[s]) = Len(resLog[s]) + 1 =>
              LET res == resLog'[s][Len(resLog'[s])]
                  attemptCount == testCount'[CounterOf(s)]
              IN  IF /\ JSLess(Num(attemptCount), conf[s].maxTries)
                     /\ ~succeeded(res)
                     /\ ~aborted(res)
                  THEN /\ timeoutLog'[s] = Append(timeoutLog[s], conf[s].pollTime)
                       /\ conf[s].pollTime = Validate(rawConf[s]).pollTime
                       /\ pendingTimer'[s] = pendingTimer[s] + 1
                       /\ onSuccessCalls'[s] = 0 /\ onFailCalls'[s] = 0
                  ELSE /\ timeoutLog'[s] = timeoutLog[s]
                       /\ pendingTimer'[s] = pendingTimer[s]
                       /\ onSuccessCalls'[s] + onFailCalls'[s]
                              = onSuccessCalls[s] + onFailCalls[s] + 1]_vars

\* the third attempt of a session with a defaulted interval completed and
\* its timer of delay 100 is pending
C13_Witness ==
    \E s \in Sessions :
        /\ Completed(s) = 3 /\ pendingTimer[s] = 1
        /\ timeoutLog[s] = <<Num(100), Num(100), Num(100)>>
        /\ ~Terminated(s)

\* the positions in the latest handler run of session s of calls to names
CallsTo(s, names) ==
    {i \in 1..Len(handlerLog[s]) : handlerLog[s][i].call \in names}

PredicateNames == {"statusResultSuccess", "statusResultAbort"}

FinalNames == {"setTimeout", "onSuccess", "onFail"}

\* C14: within an attempt a supplied onTic is called first, then isSuccess
\* and isAbort are evaluated, then the next timer is scheduled or the
\* terminal callback is called; onTic precedes both predicates and the
\* terminal callback.
C14_HandlerOrder ==
    \A s \in Sessions :
        (variant \in ThreeArgVariants /\ handlerLog[s] # <<>>) =>
            /\ TypeOf(conf[s].onTic) = "function" => CallsTo(s, {"onTic"}) # {}
            /\ \A i \in CallsTo(s, {"onTic"}) :
                   \A j \in CallsTo(s, PredicateNames \cup FinalNames) : i < j
            /\ \A i \in CallsTo(s, PredicateNames) :
                   \A j \in CallsTo(s, FinalNames) : i < j
            /\ CallsTo(s, FinalNames) = {Len(handlerLog[s])}

\* C15: on every attempt the value given to isSuccess, the value given to
\* isAbort and the first value given to onTic are the fetcher's result itself.
C15_SameResultToAll ==
    \A s \in Sessions :
        variant \in ThreeArgVariants =>
            \A i \in CallsTo(s, PredicateNames \cup {"onTic"}) :
                /\ handlerLog[s][i].kind = "object"
                /\ handlerLog[s][i].status = LastRes(s).status

\* the sum of the delays of a sequence of timers
RECURSIVE TotalDelay(_)
TotalDelay(log) ==
    IF log = <<>> THEN 0 ELSE Head(log).v + TotalDelay(Tail(log))

\* C16: a session schedules at most maxTries - 1 timers, each with the
\* validated poll interval as delay, and none on the attempt that ends it, so
\* its total scheduled delay is at most (maxTries - 1) * pollInterval.
C16_TimerBound ==
    \A s \in Sessions :
        (launched[s] /\ conf[s].maxTries.kind = "number") =>
            /\ Len(timeoutLog[s]) <= MaxTriesOf(s) - 1
            /\ \A i \in 1..Len(timeoutLog[s]) :
                   timeoutLog[s][i] = Validate(rawConf[s]).pollTime
            /\ TotalDelay(timeoutLog[s])
                   <= (MaxTriesOf(s) - 1) * Validate(rawConf[s]).pollTime.v
            /\ Terminated(s) =>
                   /\ pendingTimer[s] = 0
                   /\ Len(timeoutLog[s]) = Completed(s) - 1

\* a ten-try session with interval 250 ran out of tries after nine timers
C16_Witness ==
    \E s \in Sessions :
        /\ conf[s].maxTries = Num(10) /\ conf[s].pollTime = Num(250)
        /\ Len(timeoutLog[s]) = 9 /\ TotalDelay(timeoutLog[s]) = 2250
        /\ onFailCalls[s] = 1

\* no step of session s can happen
Stuck(s) ==
    /\ ~ENABLED TimerFire(s)
    /\ \A res \in Results : ~ENABLED FetchCallback(s, res)

\* C17: when the fetcher never calls back for an attempt the session stays
\* on that attempt for ever: no further fetch, no timer, no onTic for that
\* attempt, and neither onSuccess nor onFail.
C17_HungFetcherHangsSession ==
    /\ [](\A s \in Sessions :
            hungFetch[s] > 0 =>
                /\ ~Terminated(s)
                /\ pendingTimer[s] = 0
                /\ fetches[s] = Completed(s) + 1
                /\ ticCount[s] <= Completed(s)
                /\ Stuck(s))
    /\ [][\A s \in Sessions :
            hungFetch[s] > 0 =>
                /\ hungFetch'[s] = hungFetch[s]
                /\ fetches'[s] = fetches[s]
                /\ resLog'[s] = resLog[s]
                /\ timeoutLog'[s] = timeoutLog[s]
                /\ ticCount'[s] = ticCount[s]
                /\ onSuccessCalls'[s] = 0 /\ onFailCalls'[s] = 0]_vars

\* the fetcher dropped the callback of the third attempt of a session
C17_Witness ==
    \E s \in Sessions :
        /\ hungFetch[s] = 1
        /\ fetches[s] = 3 /\ Completed(s) = 2 /\ ticCount[s] = 2

\* C18: the maxTries and the poll interval of a session are the values
\* validated at launch, whatever the caller assigns to the config object
\* afterwards: the session makes no more fetches than the validated maxTries,
\* ends by exhaustion exactly at it, and every timer has the validated delay.
C18_ConfigFixedAtLaunch ==
    \A s \in Sessions :
        launched[s] =>
            /\ fetches[s] <= Validate(rawConf[s]).maxTries.v
            /\ \A i \in 1..Len(timeoutLog[s]) :
                   timeoutLog[s][i] = Validate(rawConf[s]).pollTime
            /\ (Terminated(s) /\ NotYetReady(LastRes(s))) =>
                   fetches[s] = Validate(rawConf[s]).maxTries.v

\* C19: the validation changes the caller's config object only where
\* needed: a valid maxTries and a valid pollTime are left as passed, an
\* invalid one is overwritten with its default (10, 100), and onSuccess,
\* onFail and onTic are left as passed.
C19_ValidationFrame ==
    \A s \in Sessions :
        launched[s] =>
            /\ conf[s].maxTries = IF InvalidNumber(rawConf[s].maxTries)
                                  THEN Num(10) ELSE rawConf[s].maxTries
            /\ conf[s].pollTime = IF InvalidNumber(rawConf[s].pollTime)
                                  THEN Num(100) ELSE rawConf[s].pollTime
            /\ conf[s].onSuccess = rawConf[s].onSuccess
            /\ conf[s].onFail = rawConf[s].onFail
            /\ conf[s].onTic = rawConf[s].onTic

\* a launch with a valid maxTries, a pollTime that is a string and an onTic
C19_Witness ==
    \E s \in Sessions :
        /\ launched[s]
        /\ rawConf[s].maxTries = Num(2) /\ rawConf[s].pollTime = Str
        /\ rawConf[s].onTic = Fn
        /\ conf[s].maxTries = Num(2) /\ conf[s].pollTime = Num(100)

TypeOK ==
    /\ variant \in Variants
    /\ \A s \in Sessions : fetches[s] \in Nat /\ pendingFetch[s] \in Nat

====
